---- MODULE Spec2Model ----
(***************************************************************************)
(* mqtt-system-monitor: the reporting daemon (src/src/daemon.rs), its      *)
(* configuration (src/src/configuration.rs), the status message            *)
(* (src/src/status.rs), the sensors and the registration descriptor        *)
(* (src/src/home_assistant.rs) and the process entry point                 *)
(* (src/src/main.rs).                                                      *)
(*                                                                         *)
(* Spec is the daemon as a process; SpecRegistration is the registration   *)
(* descriptor used on its own, as its unit tests use it.                   *)
(*                                                                         *)
(* The main task runs main() -> Configuration::load -> Daemon::new ->      *)
(* Daemon::run -> Daemon::main_loop.  Each await point of main_loop is a   *)
(* value of pc.  The MQTT event loop task, the operating system's signals  *)
(* and the network counters are the environment.                           *)
(*                                                                         *)
(* u64 values: the model's counters stay far below 2^53, so `as f64` is    *)
(* exact.  The one u64 that can leave TLC's integers is 0 - 1 wrapped to   *)
(* 2^64 - 1 (expire_cycles in a build without overflow checks); it is      *)
(* written -1, its two's-complement reading, and RemU64 computes with it.  *)
(***************************************************************************)
EXTENDS Integers, Sequences, FiniteSets, TLC

VARIABLES
    pc,              \* position of the main task
    alive,           \* FALSE once the OS has killed the process (default signal action)
    host,            \* what sysinfo can discover: network interfaces, the temperature probe
    config,          \* the configuration file's content, as Configuration::load reads it
    registered,      \* registration_descriptor.components: the registered sensors
    temp_component,  \* Daemon.temp_component is Some
    network,         \* sysinfo Networks: interface -> byte counters at the last two refreshes
    status,          \* the StatusMessage of the last update_data()
    cycles_counter,  \* main_loop's cycles_counter
    expire_cycles,   \* main_loop's expire_cycles
    event_loop,      \* the spawned notification task: "none", "polling", "stopped"
    term_installed,  \* main_loop holds the SignalKind::terminate() listener
    term_pending,    \* a SIGTERM the listener has not consumed yet
    int_installed,   \* tokio::signal::ctrl_c() was called at least once
    int_ready,       \* a SIGINT arrived during the current select!
    int_missed,      \* a SIGINT arrived after the first ctrl_c() while no ctrl_c() future
                     \* was listening: the handler ran and nothing remembers the signal
    log              \* every Daemon::publish call, in order, with its result

vars == <<pc, alive, host, config, registered, temp_component, network,
          status, cycles_counter, expire_cycles, event_loop, term_installed,
          term_pending, int_installed, int_ready, int_missed, log>>

----------------------------------------------------------------------------
(* Bounds of the exploration *)

\* a new cycle starts only while fewer than MaxLog publish calls were made
MaxLog == 6

\* update periods tried: 0 (division by zero), ordinary ones, 31..60 (N = 0), > 60 (0 - 1)
Periods == {0, 1, 10, 20, 30, 45, 60, 61}

\* network interfaces the host may have; a configuration may also name an absent one
Interfaces == {"eth0"}
ConfigurableInterfaces == {"eth0", "disconnected_interface"}

\* readings of an interface's cumulative byte counters, <<transmitted, received>>
Samples == {<<0, 0>>, <<1024, 0>>, <<1024, 10240>>, <<20480, 10240>>}

\* entity names tried by the registration descriptor: every name of at most MaxNameLen
\* characters of NameAlphabet, and the name of the tests
MaxNameLen == 2
NameAlphabet == {"a", "B", " ", "_"}
TestEntity == <<"T", "e", "s", "t", " ", "E", "n", "t", "i", "t", "y">>
EntityNames ==
    UNION {[1..n -> NameAlphabet] : n \in 0..MaxNameLen} \cup {TestEntity}

\* registration prefixes tried: the default one and the one of the tests
Prefixes == {"homeassistant", "test_prefix"}

\* the entity name of the daemon's configuration (the default is the host name)
HostName == <<"m", "y", "H", "o", "s", "t">>

----------------------------------------------------------------------------
(* Program constants *)

\* re-announce window in seconds: `60 / update_period - 1`
ExpireWindow == 60

\* bytes per KiB: `as f64 / 1024.0`
KiB == 1024

\* the default update_period
DefaultPeriod == 10

\* expire_after of the components, in seconds
ExpireAfter == 60

----------------------------------------------------------------------------
(* Configuration (configuration.rs) *)

\* what Configuration::load can return Ok for: any u64 period, any interface list,
\* an optional temperature label.  No field is validated.
Configuration ==
    [valid : {TRUE}, update_period : Periods,
     network : SUBSET ConfigurableInterfaces, temperature : BOOLEAN,
     entity : {HostName}]

\* the default registration-prefix
registration_prefix == "homeassistant"

\* an unreadable or malformed file: Configuration::load returns Err
BadFile ==
    [valid |-> FALSE, update_period |-> DefaultPeriod, network |-> {}, temperature |-> FALSE,
     entity |-> HostName]

----------------------------------------------------------------------------
(* Status message (status.rs) *)

\* StatusMessage::default()
DefaultStatus ==
    [available |-> "", cpu_usage |-> FALSE, memory_usage |-> FALSE,
     temperature |-> {}, network |-> <<>>]

\* faulty variant: off() that keeps the running availability
off_StillOn == [DefaultStatus EXCEPT !.available = "ON"]

\* StatusMessage::off()
off == [DefaultStatus EXCEPT !.available = "OFF"]

\* the top-level keys of the message as serialized: serde writes every field of the
\* struct, an empty map as {} and None as null
SerializedKeys(msg) == DOMAIN msg

\* no scalar, temperature or network field of the message is populated
IsBlank(msg) ==
    /\ ~msg.cpu_usage
    /\ ~msg.memory_usage
    /\ msg.temperature = {}
    /\ DOMAIN msg.network = {}

----------------------------------------------------------------------------
(* u64 arithmetic of main_loop *)

\* a - b on u64 without overflow checks; 2^64 - 1 is written -1
WrappingSub(a, b) == IF a >= b THEN a - b ELSE -1

\* a % n for a below 2^63 and n # 0
RemU64(a, n) == IF n < 0 THEN a ELSE a % n

\* faulty variant: the delta is not divided by the period
rate_NoPeriod(diff) == [num |-> diff, den |-> KiB]

\* Daemon::rate: integer division by the period, then `as f64 / 1024.0`
rate(diff) == [num |-> diff \div config.update_period, den |-> KiB]

\* faulty variant: the bytes sent are subtracted without saturation
transmitted_Unsaturated(d) == d.tx - d.old_tx

\* sysinfo NetworkData::transmitted: bytes sent since the last refresh (saturating_sub)
transmitted(d) == IF d.tx >= d.old_tx THEN d.tx - d.old_tx ELSE 0

\* faulty variant: the bytes received are subtracted without saturation
received_Unsaturated(d) == d.rx - d.old_rx

\* sysinfo NetworkData::received: bytes received since the last refresh (saturating_sub)
received(d) == IF d.rx >= d.old_rx THEN d.rx - d.old_rx ELSE 0

\* faulty variant: an interface whose counters did not advance gets no entry
select_network_OnlyMoving(net) ==
    [i \in {j \in config.network \cap DOMAIN net :
                transmitted(net[j]) > 0 \/ received(net[j]) > 0} |->
        [tx |-> rate(transmitted(net[i])), rx |-> rate(received(net[i]))]]

\* faulty variant: a configured interface the sampler does not report gets zero rates
select_network_Defaulted(net) ==
    [i \in config.network |->
        IF i \in DOMAIN net
        THEN [tx |-> rate(transmitted(net[i])), rx |-> rate(received(net[i]))]
        ELSE [tx |-> rate(0), rx |-> rate(0)]]

\* Daemon::select_network
select_network(net) ==
    [i \in config.network \cap DOMAIN net |->
        [tx |-> rate(transmitted(net[i])), rx |-> rate(received(net[i]))]]

----------------------------------------------------------------------------
(* Text.  A name the code reads character by character is a sequence of            *)
(* one-character strings; Str gives the string it spells.                           *)

RECURSIVE Str(_)
Str(s) == IF s = <<>> THEN "" ELSE s[1] \o Str(Tail(s))

UpperCase == <<"A", "B", "C", "D", "E", "F", "G", "H", "I", "J", "K", "L", "M",
               "N", "O", "P", "Q", "R", "S", "T", "U", "V", "W", "X", "Y", "Z">>
LowerCase == <<"a", "b", "c", "d", "e", "f", "g", "h", "i", "j", "k", "l", "m",
               "n", "o", "p", "q", "r", "s", "t", "u", "v", "w", "x", "y", "z">>

is_uppercase(c) == \E k \in DOMAIN UpperCase : UpperCase[k] = c
is_lowercase(c) == \E k \in DOMAIN LowerCase : LowerCase[k] = c
to_lowercase(c) ==
    IF is_uppercase(c) THEN LowerCase[CHOOSE k \in DOMAIN UpperCase : UpperCase[k] = c] ELSE c

\* convert_case: the characters that separate words and are dropped
Delimiters == {" ", "_", "-"}

\* convert_case: a word ends after s[i] where a lower-case letter meets an upper-case
\* one, and before the last capital of a run of capitals that a lower-case letter follows
LowerUpper(s, i) == i < Len(s) /\ is_lowercase(s[i]) /\ is_uppercase(s[i + 1])
Acronym(s, i) ==
    i + 1 < Len(s) /\ is_uppercase(s[i]) /\ is_uppercase(s[i + 1]) /\ is_lowercase(s[i + 2])

\* the words of s from position i on, lower-cased and joined by "_" after `out`;
\* `brk`: a word ended since the last character written
RECURSIVE snake(_, _, _, _)
snake(s, i, out, brk) ==
    IF i > Len(s) THEN out
    ELSE IF s[i] \in Delimiters THEN snake(s, i + 1, out, TRUE)
    ELSE snake(s, i + 1,
               out \o (IF brk /\ out # <<>> THEN <<"_">> ELSE <<>>) \o <<to_lowercase(s[i])>>,
               LowerUpper(s, i) \/ Acronym(s, i))

\* name.to_case(Case::Snake), for names of letters and delimiters
to_snake(name) == snake(name, 1, <<>>, FALSE)

----------------------------------------------------------------------------
(* Sensors and the registration descriptor (home_assistant.rs) *)

\* Sensor values; daemon.rs gives NetTx and NetRx the interface name, id is "" without one
Sensor(kind, id) == [kind |-> kind, id |-> id]

\* Sensor::iter(): the variants of the enum
SensorIter ==
    {Sensor(k, "") : k \in {"Available", "CpuUsage", "CpuTemperature", "MemoryUsage",
                            "NetRx", "NetTx"}}

\* faulty variant: NetTx is given the name of NetRx
as_str_CopyPaste(sensor) ==
    CASE sensor.kind = "Available" -> "available"
      [] sensor.kind = "CpuUsage" -> "cpu_usage"
      [] sensor.kind = "CpuTemperature" -> "cpu_temp"
      [] sensor.kind = "MemoryUsage" -> "memory_usage"
      [] sensor.kind = "NetRx" -> "net_rx"
      [] sensor.kind = "NetTx" -> "net_rx"

\* faulty variant: the temperature sensor is given the name of the CPU usage sensor
as_str_SharedCpu(sensor) ==
    CASE sensor.kind = "Available" -> "available"
      [] sensor.kind = "CpuUsage" -> "cpu_usage"
      [] sensor.kind = "CpuTemperature" -> "cpu_usage"
      [] sensor.kind = "MemoryUsage" -> "memory_usage"
      [] sensor.kind = "NetRx" -> "net_rx"
      [] sensor.kind = "NetTx" -> "net_tx"

\* Sensor::as_str
as_str(sensor) ==
    CASE sensor.kind = "Available" -> "available"
      [] sensor.kind = "CpuUsage" -> "cpu_usage"
      [] sensor.kind = "CpuTemperature" -> "cpu_temp"
      [] sensor.kind = "MemoryUsage" -> "memory_usage"
      [] sensor.kind = "NetRx" -> "net_rx"
      [] sensor.kind = "NetTx" -> "net_tx"

\* the key of a sensor: as_str, after the interface's name for a sensor of an interface
SensorKey(sensor) ==
    IF sensor.id = "" THEN as_str(sensor) ELSE sensor.id \o "_" \o as_str(sensor)

\* DeviceComponent::new and its constructors.  value_template is the key X of the
\* template `{{ value_json.X }}`; name is "" for None, expire_after is 0 for None.
DeviceComponent(sensor, entity) ==
    CASE sensor.kind = "Available" ->
            [name |-> "", platform |-> "binary_sensor", state_class |-> "",
             unique_id |-> entity \o "_available", value_template |-> "available",
             expire_after |-> 0]
      [] sensor.kind = "CpuTemperature" ->
            [name |-> "CPU temperature", platform |-> "sensor", state_class |-> "measurement",
             unique_id |-> entity \o "_cpu_temp", value_template |-> "cpu_temp",
             expire_after |-> ExpireAfter]
      [] sensor.kind = "CpuUsage" ->
            [name |-> "CPU usage", platform |-> "sensor", state_class |-> "measurement",
             unique_id |-> entity \o "_cpu_usage", value_template |-> "cpu_usage",
             expire_after |-> ExpireAfter]
      [] sensor.kind = "MemoryUsage" ->
            [name |-> "Memory usage", platform |-> "sensor", state_class |-> "measurement",
             unique_id |-> entity \o "_memory_usage", value_template |-> "memory_usage",
             expire_after |-> ExpireAfter]
      [] sensor.kind = "NetRx" ->
            [name |-> "Network RX rate", platform |-> "sensor", state_class |-> "measurement",
             unique_id |-> entity \o "_net_rx", value_template |-> "net_rx",
             expire_after |-> ExpireAfter]
      [] sensor.kind = "NetTx" ->
            [name |-> "Network TX rate", platform |-> "sensor", state_class |-> "measurement",
             unique_id |-> entity \o "_net_tx", value_template |-> "net_tx",
             expire_after |-> ExpireAfter]

\* the component of a sensor of an interface: its unique id ends with the sensor's key,
\* its template reads the interface's entry of the state document's network map
InterfaceComponent(sensor, entity) ==
    [DeviceComponent(sensor, entity) EXCEPT
        !.unique_id = entity \o "_" \o SensorKey(sensor),
        !.value_template =
            "network." \o sensor.id \o (IF sensor.kind = "NetRx" THEN ".rx" ELSE ".tx")]

\* a descriptor's empty components map
NoComponents == [k \in {} |-> 0]

\* faulty variant: the state topic is made from the name as configured
RegistrationDescriptor_RawName(name) ==
    [device |-> [name |-> Str(name), identifiers |-> Str(to_snake(name))],
     components |-> NoComponents,
     state_topic |-> "mqtt-system-monitor/" \o Str(name) \o "/state"]

\* RegistrationDescriptor::new
RegistrationDescriptor(name) ==
    [device |-> [name |-> Str(name), identifiers |-> Str(to_snake(name))],
     components |-> NoComponents,
     state_topic |-> "mqtt-system-monitor/" \o Str(to_snake(name)) \o "/state"]

\* the descriptor field of a process that has not constructed its Daemon yet
NoDescriptor ==
    [device |-> [name |-> "", identifiers |-> ""], components |-> NoComponents,
     state_topic |-> ""]

\* RegistrationDescriptor::add_component: HashMap::insert under the sensor's key
add_component(descriptor, sensor) ==
    LET key == SensorKey(sensor)
        component == IF sensor.id = ""
                     THEN DeviceComponent(sensor, descriptor.device.identifiers)
                     ELSE InterfaceComponent(sensor, descriptor.device.identifiers)
    IN  [descriptor EXCEPT
            !.components = [k \in DOMAIN descriptor.components \cup {key} |->
                               IF k = key THEN component ELSE descriptor.components[k]]]

\* RegistrationDescriptor::has_sensor
has_sensor(descriptor, sensor) == SensorKey(sensor) \in DOMAIN descriptor.components

\* RegistrationDescriptor::remove_sensor: HashMap::remove of the sensor's key
remove_sensor(descriptor, sensor) ==
    [descriptor EXCEPT
        !.components = [k \in DOMAIN descriptor.components \ {SensorKey(sensor)} |->
                           descriptor.components[k]]]

\* RegistrationDescriptor::discovery_topic
discovery_topic(descriptor, prefix) ==
    prefix \o "/device/" \o descriptor.device.identifiers \o "/config"

\* RegistrationDescriptor::state_topic
state_topic(descriptor) == descriptor.state_topic

----------------------------------------------------------------------------
(* Publishing *)

\* main_loop's `topic`, and the topic of publish_registration
StateTopic == state_topic(registered)
DiscoveryTopic == discovery_topic(registered, registration_prefix)

\* the registration document as published: the descriptor's sensors
RegistrationEntry ==
    [topic |-> DiscoveryTopic, kind |-> "registration", available |-> "",
     blank |-> FALSE, sensors |-> registered]

\* a state document as published
StatusEntry(msg) ==
    [topic |-> StateTopic, kind |-> "status", available |-> msg.available,
     blank |-> IsBlank(msg), sensors |-> {}]

\* faulty variant: requests are accepted whether or not the event loop still runs
PublishOk_Buffered == event_loop # "none"

\* AsyncClient::publish succeeds while the event loop holds the request channel
PublishOk == event_loop = "polling"

\* Daemon::publish: one call, logged with its result
publish(entry) ==
    log' = Append(log, [topic |-> entry.topic, kind |-> entry.kind,
                        available |-> entry.available, blank |-> entry.blank,
                        sensors |-> entry.sensors, ok |-> PublishOk])

\* faulty variant: the error of a publish is dropped instead of returned
AfterPublish_Ignored(next) == next

\* `.await?` after a publish: go on when it returned Ok, return the error otherwise
AfterPublish(next) == IF PublishOk THEN next ELSE "failed"

Terminal == {"done", "failed", "panicked"}
Running == alive /\ pc \notin Terminal

----------------------------------------------------------------------------
(* Initial state *)

NoNetwork == [i \in {} |-> 0]

Init ==
    /\ pc = "load"
    /\ alive = TRUE
    /\ host \in [interfaces : SUBSET Interfaces, probe : BOOLEAN]
    /\ config \in Configuration \cup {BadFile}
    /\ registered = NoDescriptor
    /\ temp_component = FALSE
    /\ network = NoNetwork
    /\ status = DefaultStatus
    /\ cycles_counter = 0
    /\ expire_cycles = 0
    /\ event_loop = "none"
    /\ term_installed = FALSE
    /\ term_pending = FALSE
    /\ int_installed = FALSE
    /\ int_ready = FALSE
    /\ int_missed = FALSE
    /\ log = <<>>

----------------------------------------------------------------------------
(* Startup: main.rs, Daemon::new, Daemon::run *)

\* main: Configuration::load(..).expect(..)
Load ==
    /\ Running /\ pc = "load"
    /\ pc' = IF config.valid THEN "new" ELSE "panicked"
    /\ UNCHANGED <<alive, host, config, registered, temp_component,
                   network, status, cycles_counter, expire_cycles, event_loop,
                   term_installed, term_pending, int_installed, int_ready, int_missed, log>>

\* Daemon::select_temp_component: configured and found among the components
select_temp_component == config.temperature /\ host.probe

\* Daemon::new.  Networks::new_with_refreshed_list reads every interface once:
\* current and previous counters are the same reading.
New ==
    /\ Running /\ pc = "new"
    /\ \E read \in [host.interfaces -> Samples] :
          network' = [i \in host.interfaces |->
                        [tx |-> read[i][1], old_tx |-> read[i][1],
                         rx |-> read[i][2], old_rx |-> read[i][2]]]
    /\ temp_component' = select_temp_component
    /\ registered' = RegistrationDescriptor(config.entity)
    /\ pc' = "run"
    /\ UNCHANGED <<alive, host, config, status, cycles_counter,
                   expire_cycles, event_loop, term_installed, term_pending,
                   int_installed, int_ready, int_missed, log>>

\* the loop of register_sensors over the configured interfaces
RECURSIVE add_interfaces(_, _)
add_interfaces(descriptor, interfaces) ==
    IF interfaces = {} THEN descriptor
    ELSE LET interface == CHOOSE i \in interfaces : TRUE
         IN  add_interfaces(
                 add_component(add_component(descriptor, Sensor("NetTx", interface)),
                               Sensor("NetRx", interface)),
                 interfaces \ {interface})

\* faulty variant: the temperature sensor is registered whenever one is configured
register_sensors_Configured ==
    LET scalars == add_component(add_component(add_component(registered,
                       Sensor("Available", "")), Sensor("CpuUsage", "")),
                       Sensor("MemoryUsage", ""))
        probe == IF config.temperature
                 THEN add_component(scalars, Sensor("CpuTemperature", ""))
                 ELSE scalars
    IN  add_interfaces(probe, config.network)

\* Daemon::register_sensors: the descriptor after the calls to add_component
register_sensors ==
    LET scalars == add_component(add_component(add_component(registered,
                       Sensor("Available", "")), Sensor("CpuUsage", "")),
                       Sensor("MemoryUsage", ""))
        probe == IF temp_component
                 THEN add_component(scalars, Sensor("CpuTemperature", ""))
                 ELSE scalars
    IN  add_interfaces(probe, config.network)

\* Daemon::run up to the call of main_loop: register the sensors, spawn the event loop task
Run ==
    /\ Running /\ pc = "run"
    /\ registered' = register_sensors
    /\ event_loop' = "polling"
    /\ pc' = "main_loop"
    /\ UNCHANGED <<alive, host, config, temp_component, network, status,
                   cycles_counter, expire_cycles, term_installed, term_pending,
                   int_installed, int_ready, int_missed, log>>

----------------------------------------------------------------------------
(* Daemon::main_loop *)

\* `60 / update_period` panics: division by zero
ExpirePanics == config.update_period = 0

\* `.. - 1` overflows: 0 - 1 on u64, a panic or a wrap depending on the build's overflow checks
ExpireOverflows == ~ExpirePanics /\ ExpireWindow \div config.update_period = 0

\* `60 / update_period - 1` when no panic ends it
ExpireCycles == WrappingSub(ExpireWindow \div config.update_period, 1)

\* lines 176-180 without a panic: the locals, and the SIGTERM listener.  An overflowing
\* 0 - 1 wraps here (a build without overflow checks).
MainLoopEnter ==
    /\ Running /\ pc = "main_loop"
    /\ ~ExpirePanics
    /\ cycles_counter' = 0
    /\ expire_cycles' = ExpireCycles
    /\ term_installed' = TRUE
    /\ pc' = "announce"
    /\ UNCHANGED <<alive, host, config, registered, temp_component,
                   network, status, event_loop, term_pending, int_installed, int_ready, int_missed, log>>

\* faulty variant: a zero period is clamped to one second instead of stopping the process
MainLoopPanic_ZeroClamped ==
    /\ Running /\ pc = "main_loop"
    /\ ExpirePanics \/ ExpireOverflows
    /\ IF ExpirePanics
       THEN /\ cycles_counter' = 0
            /\ expire_cycles' = ExpireWindow - 1
            /\ term_installed' = TRUE
            /\ pc' = "announce"
       ELSE /\ pc' = "panicked"
            /\ UNCHANGED <<cycles_counter, expire_cycles, term_installed>>
    /\ UNCHANGED <<alive, host, config, registered, temp_component, network, status,
                   event_loop, term_pending, int_installed, int_ready, int_missed, log>>

\* line 177 panics: division by zero, or 0 - 1 in a build with overflow checks
MainLoopPanic ==
    /\ Running /\ pc = "main_loop"
    /\ ExpirePanics \/ ExpireOverflows
    /\ pc' = "panicked"
    /\ UNCHANGED <<alive, host, config, registered, temp_component, network, status,
                   cycles_counter, expire_cycles, event_loop, term_installed,
                   term_pending, int_installed, int_ready, int_missed, log>>

\* line 179: signal(SignalKind::terminate())? returns the error
MainLoopSignalError ==
    /\ Running /\ pc = "main_loop"
    /\ ~ExpirePanics
    /\ cycles_counter' = 0
    /\ expire_cycles' = ExpireCycles
    /\ pc' = "failed"
    /\ UNCHANGED <<alive, host, config, registered, temp_component,
                   network, status, event_loop, term_installed, term_pending,
                   int_installed, int_ready, int_missed, log>>

\* faulty variant: the result of the first registration is not looked at
Announce_Unchecked ==
    /\ Running /\ pc = "announce"
    /\ publish(RegistrationEntry)
    /\ pc' = "settle"
    /\ UNCHANGED <<alive, host, config, registered, temp_component,
                   network, status, cycles_counter, expire_cycles, event_loop,
                   term_installed, term_pending, int_installed, int_ready, int_missed>>

\* line 182: self.publish_registration(&client).await?
Announce ==
    /\ Running /\ pc = "announce"
    /\ publish(RegistrationEntry)
    /\ pc' = AfterPublish("settle")
    /\ UNCHANGED <<alive, host, config, registered, temp_component,
                   network, status, cycles_counter, expire_cycles, event_loop,
                   term_installed, term_pending, int_installed, int_ready, int_missed>>

\* line 183: the settle delay
Settle ==
    /\ Running /\ pc = "settle"
    /\ pc' = "cycle"
    /\ UNCHANGED <<alive, host, config, registered, temp_component,
                   network, status, cycles_counter, expire_cycles, event_loop,
                   term_installed, term_pending, int_installed, int_ready, int_missed, log>>

\* faulty variant: the modulus without the `- 1`
NextCounter_WholeWindow == RemU64(cycles_counter + 1, expire_cycles + 1)

\* line 186: the next value of cycles_counter
NextCounter == RemU64(cycles_counter + 1, expire_cycles)

\* line 187: the registration is published again in this cycle
Reannounce == NextCounter = 0

\* faulty variant: a sensor is dropped from the descriptor when it is announced again
Cycle_Rediscover ==
    /\ Running /\ pc = "cycle"
    /\ Len(log) < MaxLog
    /\ IF expire_cycles = 0
       THEN /\ pc' = "panicked"
            /\ UNCHANGED <<cycles_counter, log, registered>>
       ELSE /\ cycles_counter' = NextCounter
            /\ IF Reannounce
               THEN /\ registered' = remove_sensor(registered, Sensor("MemoryUsage", ""))
                    /\ publish([RegistrationEntry EXCEPT !.sensors = registered'])
                    /\ pc' = AfterPublish("update")
               ELSE /\ pc' = "update"
                    /\ UNCHANGED <<log, registered>>
    /\ UNCHANGED <<alive, host, config, temp_component,
                   network, status, expire_cycles, event_loop, term_installed,
                   term_pending, int_installed, int_ready, int_missed>>

\* lines 186-189: advance the counter (a zero modulus panics), re-announce when it wraps
Cycle ==
    /\ Running /\ pc = "cycle"
    /\ Len(log) < MaxLog
    /\ IF expire_cycles = 0
       THEN /\ pc' = "panicked"
            /\ UNCHANGED <<cycles_counter, log>>
       ELSE /\ cycles_counter' = NextCounter
            /\ IF Reannounce
               THEN /\ publish(RegistrationEntry)
                    /\ pc' = AfterPublish("update")
               ELSE /\ pc' = "update"
                    /\ UNCHANGED log
    /\ UNCHANGED <<alive, host, config, registered, temp_component,
                   network, status, expire_cycles, event_loop, term_installed,
                   term_pending, int_installed, int_ready, int_missed>>

\* faulty variant: the baseline is not replaced by the previous reading
refresh_KeepBaseline(net, read) ==
    [i \in DOMAIN net |->
        [tx |-> read[i][1], old_tx |-> net[i].old_tx,
         rx |-> read[i][2], old_rx |-> net[i].old_rx]]

\* faulty variant: the received baseline is copied from the transmitted counter
refresh_SharedBaseline(net, read) ==
    [i \in DOMAIN net |->
        [tx |-> read[i][1], old_tx |-> net[i].tx, rx |-> read[i][2], old_rx |-> net[i].tx]]

\* Networks::refresh: the previous reading becomes the baseline of each interface
refresh(net, read) ==
    [i \in DOMAIN net |->
        [tx |-> read[i][1], old_tx |-> net[i].tx, rx |-> read[i][2], old_rx |-> net[i].rx]]

\* faulty variant: the message is built from StatusMessage::default(), `available`
\* left as it is there
update_data_Unset(net, temp) ==
    [available |-> "", cpu_usage |-> TRUE, memory_usage |-> TRUE,
     temperature |-> IF temp_component /\ temp THEN {"cpu"} ELSE {},
     network |-> select_network(net)]

\* Daemon::update_data: the message built from the refreshed samples
update_data(net, temp) ==
    [available |-> "ON", cpu_usage |-> TRUE, memory_usage |-> TRUE,
     temperature |-> IF temp_component /\ temp THEN {"cpu"} ELSE {},
     network |-> select_network(net)]

\* Daemon::rate divides by the period: a zero period panics when a rate is computed
RatePanics(net) ==
    config.update_period = 0 /\ config.network \cap DOMAIN net # {}

\* line 191 and the entry of select!: publish_update, then ctrl_c() is listened to
Update ==
    /\ Running /\ pc = "update"
    /\ \E read \in [DOMAIN network -> Samples], temp \in BOOLEAN :
          /\ network' = IF config.network # {} THEN refresh(network, read) ELSE network
          /\ config.network = {} =>
                read = [i \in DOMAIN network |-> <<network[i].tx, network[i].rx>>]
          /\ temp_component \/ ~temp
          /\ IF RatePanics(network')
             THEN /\ pc' = "panicked"
                  /\ UNCHANGED <<status, log, int_installed>>
             ELSE /\ status' = update_data(network', temp)
                  /\ publish(StatusEntry(status'))
                  /\ pc' = AfterPublish("wait")
                  /\ int_installed' = (int_installed \/ pc' = "wait")
    /\ int_ready' = FALSE
    /\ UNCHANGED int_missed
    /\ UNCHANGED <<alive, host, config, registered, temp_component,
                   cycles_counter, expire_cycles, event_loop, term_installed, term_pending>>

\* line 193: the sleep completes first
SleepElapsed ==
    /\ Running /\ pc = "wait"
    /\ pc' = "cycle"
    /\ int_ready' = FALSE
    /\ UNCHANGED int_missed
    /\ UNCHANGED <<alive, host, config, registered, temp_component,
                   network, status, cycles_counter, expire_cycles, event_loop,
                   term_installed, term_pending, int_installed, log>>

\* lines 194-197: ctrl_c() completes first
CtrlCWins ==
    /\ Running /\ pc = "wait"
    /\ int_ready
    /\ pc' = "off"
    /\ int_ready' = FALSE
    /\ UNCHANGED int_missed
    /\ UNCHANGED <<alive, host, config, registered, temp_component,
                   network, status, cycles_counter, expire_cycles, event_loop,
                   term_installed, term_pending, int_installed, log>>

\* lines 198-201: terminal_signal.recv() completes first
TerminateWins ==
    /\ Running /\ pc = "wait"
    /\ term_pending
    /\ pc' = "off"
    /\ term_pending' = FALSE
    /\ int_ready' = FALSE
    /\ UNCHANGED int_missed
    /\ UNCHANGED <<alive, host, config, registered, temp_component,
                   network, status, cycles_counter, expire_cycles, event_loop,
                   term_installed, int_installed, log>>

\* faulty variant: a failed publish of off() is tried again
Off_Retried ==
    /\ Running /\ pc = "off"
    /\ publish(StatusEntry(off))
    /\ pc' = IF PublishOk THEN "grace" ELSE "off"
    /\ UNCHANGED <<alive, host, config, registered, temp_component,
                   network, status, cycles_counter, expire_cycles, event_loop,
                   term_installed, term_pending, int_installed, int_ready, int_missed>>

\* line 205: Daemon::publish(&client, topic, &StatusMessage::off().to_string()).await?
Off ==
    /\ Running /\ pc = "off"
    /\ publish(StatusEntry(off))
    /\ pc' = AfterPublish("grace")
    /\ UNCHANGED <<alive, host, config, registered, temp_component,
                   network, status, cycles_counter, expire_cycles, event_loop,
                   term_installed, term_pending, int_installed, int_ready, int_missed>>

\* lines 207-209: the grace delay, then Ok(())
Grace ==
    /\ Running /\ pc = "grace"
    /\ pc' = "done"
    /\ UNCHANGED <<alive, host, config, registered, temp_component,
                   network, status, cycles_counter, expire_cycles, event_loop,
                   term_installed, term_pending, int_installed, int_ready, int_missed, log>>

----------------------------------------------------------------------------
(* Environment: the event loop task and the signals *)

\* lines 163-167: event_loop.poll() returns Err, the task ends and drops the event loop
ConnError ==
    /\ Running /\ event_loop = "polling"
    /\ event_loop' = "stopped"
    /\ UNCHANGED <<pc, alive, host, config, registered, temp_component,
                   network, status, cycles_counter, expire_cycles, term_installed,
                   term_pending, int_installed, int_ready, int_missed, log>>

\* SIGTERM: kept for the listener once it exists, the default action (kill) before
DeliverSigterm ==
    /\ Running
    /\ IF term_installed
       THEN term_pending' = TRUE /\ UNCHANGED alive
       ELSE alive' = FALSE /\ UNCHANGED term_pending
    /\ UNCHANGED <<pc, host, config, registered, temp_component,
                   network, status, cycles_counter, expire_cycles, event_loop,
                   term_installed, int_installed, int_ready, int_missed, log>>

\* SIGINT: the default action (kill) before the first ctrl_c(); afterwards seen only
\* by a ctrl_c() future that exists, which is the case during select! alone
DeliverSigint ==
    /\ Running
    /\ IF ~int_installed
       THEN alive' = FALSE /\ UNCHANGED <<int_ready, int_missed>>
       ELSE /\ int_ready' = (int_ready \/ pc = "wait")
            /\ int_missed' = (int_missed \/ pc # "wait")
            /\ UNCHANGED alive
    /\ UNCHANGED <<pc, host, config, registered, temp_component,
                   network, status, cycles_counter, expire_cycles, event_loop,
                   term_installed, term_pending, int_installed, log>>

Next ==
    \/ Load
    \/ New
    \/ Run
    \/ MainLoopEnter
    \/ MainLoopPanic
    \/ MainLoopSignalError
    \/ Announce
    \/ Settle
    \/ Cycle
    \/ Update
    \/ SleepElapsed
    \/ CtrlCWins
    \/ TerminateWins
    \/ Off
    \/ Grace
    \/ ConnError
    \/ DeliverSigterm
    \/ DeliverSigint

Spec == Init /\ [][Next]_vars

----------------------------------------------------------------------------
(* The registration descriptor on its own, used as the tests of home_assistant.rs   *)
(* use it: constructed from an entity name, then add_component and remove_sensor    *)
(* called with any sensor in any order.  The daemon's variables keep their initial  *)
(* values; config.entity is the name the descriptor was constructed from.           *)

InitRegistration ==
    /\ pc = "descriptor"
    /\ alive = TRUE
    /\ host = [interfaces |-> {}, probe |-> FALSE]
    /\ config \in [valid : {TRUE}, update_period : {DefaultPeriod}, network : {{}},
                   temperature : {FALSE}, entity : EntityNames]
    /\ registered = RegistrationDescriptor(config.entity)
    /\ temp_component = FALSE
    /\ network = NoNetwork
    /\ status = DefaultStatus
    /\ cycles_counter = 0
    /\ expire_cycles = 0
    /\ event_loop = "none"
    /\ term_installed = FALSE
    /\ term_pending = FALSE
    /\ int_installed = FALSE
    /\ int_ready = FALSE
    /\ int_missed = FALSE
    /\ log = <<>>

\* descriptor.add_component(sensor)
AddComponent ==
    /\ pc = "descriptor"
    /\ \E sensor \in SensorIter : registered' = add_component(registered, sensor)
    /\ UNCHANGED <<pc, alive, host, config, temp_component, network, status,
                   cycles_counter, expire_cycles, event_loop, term_installed,
                   term_pending, int_installed, int_ready, int_missed, log>>

\* descriptor.remove_sensor(sensor)
RemoveSensor ==
    /\ pc = "descriptor"
    /\ \E sensor \in SensorIter : registered' = remove_sensor(registered, sensor)
    /\ UNCHANGED <<pc, alive, host, config, temp_component, network, status,
                   cycles_counter, expire_cycles, event_loop, term_installed,
                   term_pending, int_installed, int_ready, int_missed, log>>

NextRegistration ==
    \/ AddComponent
    \/ RemoveSensor

SpecRegistration == InitRegistration /\ [][NextRegistration]_vars

----------------------------------------------------------------------------
(* The reporting loop's states, and the log read as the published documents *)

Phase ==
    CASE pc \in {"load", "new", "run", "main_loop", "announce", "settle"} -> "STARTING"
      [] pc \in {"cycle", "update", "wait"} -> "RUNNING"
      [] pc \in {"off", "grace"} -> "STOPPING"
      [] OTHER -> "STOPPED"

\* the call made by this step, when the step made one
Called == log' # log
LastCall == log[Len(log)]

IsRegistration(e) == e.kind = "registration" /\ e.topic = DiscoveryTopic
IsSnapshot(e) == e.kind = "status" /\ e.topic = StateTopic
IsOffSnapshot(e) == IsSnapshot(e) /\ e.available = "OFF" /\ e.blank
IsOnSnapshot(e) == IsSnapshot(e) /\ e.available = "ON"

----------------------------------------------------------------------------
(* C1: once a cancellation signal has won the wait of a RUNNING loop, the next      *)
(* document published is the off() snapshot on the state topic (available "OFF",   *)
(* nothing else populated), and after it no "ON" snapshot and no registration      *)
(* document is published.                                                          *)
C1_OffAfterCancel ==
    [][ /\ (pc # "off" /\ pc' = "off") =>
              pc = "wait" /\ (int_ready \/ term_pending) /\ ~Called
        /\ (pc = "off" /\ Called) =>
              /\ Len(log') = Len(log) + 1
              /\ SubSeq(log', 1, Len(log)) = log
              /\ IsOffSnapshot(log'[Len(log')])
        /\ (pc = "off" /\ pc' # "off") => Called
        /\ (pc \in {"grace", "done"}) => ~Called
        /\ (pc = "failed" /\ log # <<>> /\ LastCall.available = "OFF") => ~Called
      ]_vars

\* a cancelled loop has published the off() snapshot right after its last "ON" snapshot
C1_Witness ==
    /\ pc = "grace"
    /\ Len(log) >= 3
    /\ IsOffSnapshot(LastCall) /\ LastCall.ok
    /\ IsOnSnapshot(log[Len(log) - 1]) /\ ~log[Len(log) - 1].blank

----------------------------------------------------------------------------
(* C2: the registration document is published, successfully, on the discovery      *)
(* topic before any state snapshot: no publish of a state snapshot is even         *)
(* attempted in a run whose registration has not been accepted.                    *)
C2_RegistrationFirst ==
    \A i \in 1..Len(log) :
        IsSnapshot(log[i]) => /\ i > 1
                              /\ IsRegistration(log[1])
                              /\ log[1].ok

\* the first snapshot follows the accepted registration
C2_Witness ==
    /\ pc = "wait"
    /\ Len(log) = 2
    /\ IsRegistration(log[1]) /\ log[1].ok
    /\ IsOnSnapshot(log[2]) /\ log[2].ok

----------------------------------------------------------------------------
(* C3: in RUNNING the cycle counter c starts at 0 and every cycle sets              *)
(* c := (c + 1) mod N, N = floor(60 / period) - 1; the registration is published    *)
(* again exactly in the cycles in which c becomes 0, before that cycle's snapshot,  *)
(* and every cycle publishes a snapshot.  So exactly N snapshots lie between two    *)
(* consecutive registrations of RUNNING (N - 1 between the startup registration     *)
(* and the first one of RUNNING).  Stated for the periods with N >= 1.              *)

\* N of the claim, from the configured period
ClaimN == (60 \div config.update_period) - 1

\* indices of the registration documents in the log
RegistrationCalls == {i \in 1..Len(log) : IsRegistration(log[i])}

\* two registrations with none between them
Consecutive(i, j) ==
    /\ i \in RegistrationCalls /\ j \in RegistrationCalls /\ i < j
    /\ \A k \in (i + 1)..(j - 1) : k \notin RegistrationCalls

SnapshotsBetween(i, j) == Cardinality({k \in (i + 1)..(j - 1) : IsOnSnapshot(log[k])})

\* snapshots since the last registration
SnapshotsSinceRegistration ==
    LET last == CHOOSE i \in RegistrationCalls : \A j \in RegistrationCalls : j <= i
    IN  Cardinality({k \in (last + 1)..Len(log) : IsOnSnapshot(log[k])})

C3_CounterStep ==
    /\ (pc = "cycle" /\ pc' \in {"update", "failed"}) =>
          /\ cycles_counter' = (cycles_counter + 1) % ClaimN
          /\ Called <=> cycles_counter' = 0
          /\ Called => IsRegistration(log'[Len(log')])
    /\ (pc = "update" /\ pc' \in {"wait", "failed"}) =>
          /\ Called
          /\ IsOnSnapshot(log'[Len(log')])
          /\ UNCHANGED cycles_counter

C3_LogShape ==
    /\ pc \in {"announce", "settle"} => cycles_counter = 0
    /\ \A i, j \in RegistrationCalls :
          Consecutive(i, j) => SnapshotsBetween(i, j) = IF i = 1 THEN ClaimN - 1 ELSE ClaimN
    /\ pc = "wait" =>
          SnapshotsSinceRegistration =
              IF RegistrationCalls = {1} THEN cycles_counter ELSE cycles_counter + 1

C3_Reannounce ==
    /\ [](config.valid /\ config.update_period >= 1 /\ ClaimN >= 1 => C3_LogShape)
    /\ [][config.valid /\ config.update_period >= 1 /\ ClaimN >= 1 => C3_CounterStep]_vars

\* period 20, N = 2: two registrations of RUNNING with exactly two snapshots between them
C3_Witness ==
    /\ config.update_period = 20
    /\ \E i, j \in RegistrationCalls :
          /\ i > 1
          /\ Consecutive(i, j)
          /\ SnapshotsBetween(i, j) = 2
          /\ log[j].ok

----------------------------------------------------------------------------
(* C4: a publish that fails during RUNNING (a registration published again, or a    *)
(* snapshot) aborts the loop: it is the last call the run ever makes (no retry, no  *)
(* later publish) and the loop has returned the error (no further cycle).           *)
C4_FailureAborts ==
    \A i \in 1..Len(log) :
        (~log[i].ok /\ (IsOnSnapshot(log[i]) \/ (IsRegistration(log[i]) /\ i > 1))) =>
            /\ i = Len(log)
            /\ pc = "failed"

\* a snapshot of a later cycle failed, and the run ended there
C4_Witness ==
    /\ pc = "failed"
    /\ Len(log) >= 3
    /\ IsOnSnapshot(LastCall) /\ ~LastCall.ok
    /\ \A i \in 1..(Len(log) - 1) : log[i].ok

----------------------------------------------------------------------------
(* C5: in STOPPING the off() snapshot is published best-effort.                     *)

\* calls that carry the off() snapshot
OffCalls == {i \in 1..Len(log) : log[i].available = "OFF"}

\* C5 as claimed: the publish of off() is attempted once and, whatever its result,
\* the loop then waits the grace delay and reaches STOPPED from it.
C5_GraceAfterFailedOff ==
    [][ /\ (pc = "off" /\ Called) => pc' = "grace"
        /\ (pc = "grace" /\ pc' # pc) => pc' = "done"
        /\ Cardinality(OffCalls') <= 1
      ]_vars

\* C5 as amended: the publish of off() is attempted exactly once and never retried;
\* after a successful publish the loop waits the grace delay and then stops, after a
\* failed one it returns the error at once, without the grace delay.
C5_OffOnce ==
    /\ [](/\ Cardinality(OffCalls) <= 1
          /\ \A i \in OffCalls :
                /\ i = Len(log)
                /\ IsOffSnapshot(log[i])
                /\ log[i].ok => pc \in {"grace", "done"}
                /\ ~log[i].ok => pc = "failed"
          /\ pc \in {"grace", "done"} => OffCalls # {})
    /\ [][ /\ (pc = "off" /\ pc' # pc) => Called
           /\ (pc = "grace" /\ pc' # pc) => pc' = "done" ]_vars

\* the publish of off() failed: the loop stopped without the grace delay
C5_Witness ==
    /\ pc = "failed"
    /\ OffCalls = {Len(log)}
    /\ ~LastCall.ok

----------------------------------------------------------------------------
(* C6: the loop's state only moves forward along STARTING, RUNNING, STOPPING,       *)
(* STOPPED; RUNNING is left only because a cancellation signal won the wait or a    *)
(* publish failed; nothing is published once STOPPED is reached.                    *)
Rank(phase) ==
    CASE phase = "STARTING" -> 0
      [] phase = "RUNNING" -> 1
      [] phase = "STOPPING" -> 2
      [] OTHER -> 3

CancelWon == pc = "wait" /\ pc' = "off" /\ (int_ready \/ term_pending)
PublishFailed == Called /\ ~log'[Len(log')].ok /\ pc' = "failed"

C6_ForwardOnly ==
    [][ /\ Rank(Phase') >= Rank(Phase)
        /\ (Phase = "RUNNING" /\ Phase' # "RUNNING") => (CancelWon \/ PublishFailed)
        /\ Phase = "STOPPED" => (~Called /\ Phase' = "STOPPED")
      ]_vars

----------------------------------------------------------------------------
(* C7: a configuration whose period is 60 seconds or more is rejected before the    *)
(* reporting loop starts: nothing is published for it and the loop never gets to    *)
(* the cycle counter's modulo.                                                      *)
C7_LongPeriodRejected ==
    (config.valid /\ config.update_period >= 60) =>
        /\ log = <<>>
        /\ Phase \in {"STARTING", "STOPPED"}

----------------------------------------------------------------------------
(* C8: a period of 0 seconds is fatal at startup: the process stops before any      *)
(* publish, and no rate is ever computed with the zero period (update_data never    *)
(* runs).                                                                           *)
C8_ZeroPeriodFatal ==
    (config.valid /\ config.update_period = 0) =>
        /\ log = <<>>
        /\ status = DefaultStatus
        /\ pc \in {"load", "new", "run", "main_loop", "panicked"}

\* the zero period has stopped the process, nothing was published
C8_Witness ==
    /\ config.valid /\ config.update_period = 0
    /\ pc = "panicked"
    /\ alive
    /\ log = <<>>

----------------------------------------------------------------------------
(* Rates.  The tracker of a counter is the interface's entry of `network`: its      *)
(* baseline is the counter read at the previous refresh, a fresh tracker is the     *)
(* entry made by Daemon::new.  update(v, period) is the part of update_data that    *)
(* reads v for the counter.                                                         *)

\* snapshots sampled so far
Sampled == Cardinality({k \in 1..Len(log) : IsOnSnapshot(log[k])})

\* a step of update_data that built a snapshot
Samples_Taken == pc = "update" /\ Called

\* v - b, or 0 when the counter went back
Delta(v, b) == IF v >= b THEN v - b ELSE 0

\* x KiB/s as the f64 the daemon reports
KiBps(x) == [num |-> x * 1024, den |-> 1024]

----------------------------------------------------------------------------
----------------------------------------------------------------------------
(* C10: for a tracker with baseline b, update(v, period) with v >= b returns the    *)
(* rate (v - b) / period (u64 division, as the code divides) scaled to KiB/s: a     *)
(* delta of 1024 bytes over period 1 gives 1.0 and one of 2 * 1024 * 10 bytes over  *)
(* period 10 gives 2.0.                                                             *)
C10_RateOf(v, b, r) ==
    v >= b =>
        /\ r.num = (v - b) \div config.update_period
        /\ r.den = 1024
        /\ (config.update_period = 1 /\ v - b = 1024) => r = KiBps(1)
        /\ (config.update_period = 10 /\ v - b = 2 * 1024 * 10) => r = KiBps(2)

----------------------------------------------------------------------------
(* Counter regressions.  A counter regressed at the last update when the value it   *)
(* read is below the one read before it.                                            *)

RegressedTx(i) == network[i].tx < network[i].old_tx
RegressedRx(i) == network[i].rx < network[i].old_rx

\* the interfaces update_data() reports: configured and known to the sampler
Reported == config.network \cap host.interfaces

\* the rate the daemon reports for a counter that read v after b
RateFrom(v, b) == [num |-> Delta(v, b) \div config.update_period, den |-> 1024]

----------------------------------------------------------------------------
----------------------------------------------------------------------------
----------------------------------------------------------------------------
----------------------------------------------------------------------------
(* C14: for a configured interface the sampler reports, the first update_data()     *)
(* after the construction of the daemon yields an entry with tx = 0.0 and rx = 0.0, *)
(* and every later update_data() yields an entry for the interface.                 *)
C14_FirstEntryZero ==
    status.available = "ON" =>
        \A i \in Reported :
            /\ i \in DOMAIN status.network
            /\ Sampled = 1 =>
                  (status.network[i].tx = KiBps(0) /\ status.network[i].rx = KiBps(0))

----------------------------------------------------------------------------
(* C15: registration is idempotent.  For every sensor s and every reachable         *)
(* descriptor, registering s twice gives the descriptor that registering it once    *)
(* gives, with exactly one entry under s's key; unregistering a sensor whose key is *)
(* absent leaves the descriptor unchanged; and neither operation adds, removes or   *)
(* changes the entry of any other sensor.                                           *)
EntryOf(descriptor, sensor) == descriptor.components[SensorKey(sensor)]

SameEntry(before, after, sensor) ==
    /\ has_sensor(after, sensor) <=> has_sensor(before, sensor)
    /\ has_sensor(before, sensor) => EntryOf(after, sensor) = EntryOf(before, sensor)

C15_Idempotent ==
    \A s \in SensorIter :
        LET once == add_component(registered, s)
            twice == add_component(once, s)
            removed == remove_sensor(registered, s)
        IN  /\ twice = once
            /\ has_sensor(twice, s)
            /\ Cardinality(DOMAIN twice.components) =
                  Cardinality(DOMAIN registered.components)
                      + (IF has_sensor(registered, s) THEN 0 ELSE 1)
            /\ EntryOf(twice, s) = DeviceComponent(s, registered.device.identifiers)
            /\ ~has_sensor(registered, s) => removed = registered
            /\ ~has_sensor(removed, s)
            /\ \A o \in SensorIter \ {s} :
                  SameEntry(registered, twice, o) /\ SameEntry(registered, removed, o)

\* a descriptor that holds some sensors and lacks others, reached by calls that
\* registered a sensor again and unregistered an absent one
C15_Witness ==
    /\ pc = "descriptor"
    /\ has_sensor(registered, Sensor("CpuUsage", ""))
    /\ has_sensor(registered, Sensor("NetRx", ""))
    /\ ~has_sensor(registered, Sensor("NetTx", ""))
    /\ ~has_sensor(registered, Sensor("CpuTemperature", ""))

----------------------------------------------------------------------------
(* C16: the topics are functions of the entity name alone.  With d the snake-cased  *)
(* entity name (lower-case words joined by "_"), discovery_topic(prefix) is         *)
(* "{prefix}/device/{d}/config" and state_topic() is "mqtt-system-monitor/{d}/state"*)
(* ("Test Entity" gives test_entity); the state topic is the one made at            *)
(* construction whatever add_component and remove_sensor calls follow.              *)
C16_TopicsOfName ==
    LET d == to_snake(config.entity)
    IN  /\ \A i \in DOMAIN d : ~is_uppercase(d[i]) /\ d[i] \notin {" ", "-"}
        /\ registered.device.identifiers = Str(d)
        /\ state_topic(registered) = "mqtt-system-monitor/" \o Str(d) \o "/state"
        /\ \A prefix \in Prefixes :
              discovery_topic(registered, prefix) =
                  prefix \o "/device/" \o Str(d) \o "/config"
        /\ config.entity = TestEntity =>
              /\ Str(d) = "test_entity"
              /\ state_topic(registered) = "mqtt-system-monitor/test_entity/state"
              /\ discovery_topic(registered, "homeassistant") =
                    "homeassistant/device/test_entity/config"
              /\ discovery_topic(registered, "test_prefix") =
                    "test_prefix/device/test_entity/config"

C16_Topics ==
    /\ [](pc = "descriptor" => C16_TopicsOfName)
    /\ [][pc = "descriptor" =>
             /\ state_topic(registered') = state_topic(registered)
             /\ registered'.device = registered.device]_vars

\* the descriptor of "Test Entity" after sensors were registered
C16_Witness ==
    /\ pc = "descriptor"
    /\ config.entity = TestEntity
    /\ registered.device.name = "Test Entity"
    /\ state_topic(registered) = "mqtt-system-monitor/test_entity/state"
    /\ Cardinality(DOMAIN registered.components) >= 2

----------------------------------------------------------------------------
(* C17: key parity.  After any sequence of add_component and remove_sensor calls,   *)
(* every entry of the components map stored under key k has unique_id               *)
(* "{deviceId}_{k}" and a value_template that reads exactly the state document's    *)
(* key k; and the key of every registered sensor that has a display name is a key   *)
(* of the serialized state snapshot.                                                *)
C17_KeyParity ==
    pc = "descriptor" =>
        \A k \in DOMAIN registered.components :
            LET component == registered.components[k]
            IN  /\ component.unique_id = registered.device.identifiers \o "_" \o k
                /\ component.value_template = k
                /\ component.name # "" => k \in SerializedKeys(status)

----------------------------------------------------------------------------
(* C18: after the startup registration (register_sensors) the registered sensors    *)
(* are exactly: Available, CpuUsage and MemoryUsage always; the temperature sensor  *)
(* if and only if a probe is configured and was discovered; and one NetRx and one   *)
(* NetTx entry per configured interface, so k configured interfaces give 2k         *)
(* network components.  Nothing is registered before, nothing else after.           *)
NetworkKeys ==
    {i \o "_net_rx" : i \in config.network} \cup {i \o "_net_tx" : i \in config.network}

----------------------------------------------------------------------------
(* C19: in every sampled snapshot absent data is omitted, never defaulted.  The     *)
(* network map has an entry exactly for the interfaces that are configured and      *)
(* reported by the sampler: a configured interface the sampler does not report has  *)
(* no entry, so the value its registered sensors read is none.  Temperature data is *)
(* present only for a configured and discovered probe.  With no interface and no    *)
(* probe configured both maps are empty in every sample.                            *)

\* the value a sensor of an interface reads in the message is none
RendersNone(sensor, msg) == sensor.id \notin DOMAIN msg.network

C19_AbsentOmitted ==
    status.available = "ON" =>
        /\ DOMAIN status.network = config.network \cap host.interfaces
        /\ \A i \in config.network \ host.interfaces :
              /\ i \notin DOMAIN status.network
              /\ has_sensor(registered, Sensor("NetRx", i))
              /\ has_sensor(registered, Sensor("NetTx", i))
              /\ RendersNone(Sensor("NetRx", i), status)
              /\ RendersNone(Sensor("NetTx", i), status)
        /\ status.temperature # {} => (config.temperature /\ host.probe)
        /\ (config.network = {} /\ ~config.temperature) =>
              (DOMAIN status.network = {} /\ status.temperature = {})

\* eth0 and an interface the host does not have are configured: the snapshot holds
\* eth0 alone, while the sensors of the absent interface are registered
C19_Witness ==
    /\ pc = "wait"
    /\ config.network = {"eth0", "disconnected_interface"}
    /\ host.interfaces = {"eth0"}
    /\ DOMAIN status.network = {"eth0"}
    /\ "disconnected_interface_net_rx" \in DOMAIN registered.components
    /\ status.temperature = {}

----------------------------------------------------------------------------
(* C20: the registration descriptor is written only by the startup registration.    *)
(* From the first publish of the registration document on, the descriptor (the      *)
(* registered sensors and their components) never changes, and every registration   *)
(* document published again is the one published at startup, on the same topic.     *)
AnnouncedCalls == {i \in 1..Len(log) : log[i].kind = "registration"}

C20_RegistrationFrozen ==
    /\ [](\A i \in AnnouncedCalls :
            /\ log[i].sensors = registered
            /\ log[i].sensors = log[1].sensors
            /\ log[i].topic = log[1].topic)
    /\ [][log # <<>> => registered' = registered]_vars

\* the registration was published again, after snapshots, and is the startup document
C20_Witness ==
    /\ Cardinality(AnnouncedCalls) >= 2
    /\ Sampled >= 2
    /\ \A i \in AnnouncedCalls : log[i].ok /\ log[i].sensors = log[1].sensors
    /\ Cardinality(DOMAIN registered.components) >= 5

----------------------------------------------------------------------------
(* C21: cancellation is observed only at the per-cycle wait. The loop leaves       *)
(* RUNNING for STOPPING only from the wait that follows the cycle's state publish, *)
(* and a signal that arrives while a document of the cycle is being published      *)
(* (a re-announce or the snapshot) neither stops the task nor skips that publish:  *)
(* the task is still alive after the signal and its step out of "update" is the    *)
(* publish call of the snapshot.                                                   *)
C21_LeavesFromWait ==
    (Phase = "RUNNING" /\ Phase' = "STOPPING") =>
        /\ pc = "wait" /\ ~Called
        /\ log # <<>> /\ IsOnSnapshot(LastCall) /\ LastCall.ok

C21_PublishNotSkipped ==
    (pc = "update" /\ pc' # "update") =>
        Called /\ IsOnSnapshot(log'[Len(log')])

C21_CancelOnlyAtWait ==
    [][ /\ C21_LeavesFromWait
        /\ C21_PublishNotSkipped
        /\ pc \in {"cycle", "update"} => alive' ]_vars

----------------------------------------------------------------------------
(* C22: the loss of the connection is fatal and nothing is retried. Once the       *)
(* notification task has ended on an error of the stream it never polls again;     *)
(* from then on no publish call succeeds: the next call of the reporting task      *)
(* returns an error and the loop ends in failure with that call, and a reporting   *)
(* task standing at a publish is never blocked, its publish step can be taken.     *)
AtPublish == pc \in {"announce", "update", "off"}

C22_NeverBlocked ==
    (Running /\ AtPublish /\ event_loop = "stopped") => ENABLED (Announce \/ Update \/ Off)

C22_ConnectionLossFatal ==
    /\ []C22_NeverBlocked
    /\ [][ /\ event_loop = "stopped" => event_loop' = "stopped"
           /\ (event_loop = "stopped" /\ Called) =>
                  /\ ~log'[Len(log')].ok
                  /\ pc' = "failed" ]_vars

\* the connection was lost after the first snapshot: the registration announced
\* again in a later cycle is the call that fails
C22_Witness ==
    /\ event_loop = "stopped" /\ pc = "failed"
    /\ Len(log) >= 3
    /\ IsRegistration(LastCall) /\ ~LastCall.ok
    /\ \A i \in 1..(Len(log) - 1) : log[i].ok

----------------------------------------------------------------------------
(* C23: every snapshot built by sampling says available = "ON", and the off()      *)
(* snapshot is published during shutdown only: a step that samples leaves an "ON"  *)
(* message in Daemon.status and publishes it, every state message before the last  *)
(* one says "ON", an "OFF" message is published from the shutdown step alone, and  *)
(* a run holds at most one "OFF" message, which is then its last message.          *)
StateCalls == {i \in 1..Len(log) : log[i].kind = "status"}

C23_OnThenOff ==
    /\ status = DefaultStatus \/ status.available = "ON"
    /\ \A i \in StateCalls :
          /\ log[i].available \in {"ON", "OFF"}
          /\ i < Len(log) => log[i].available = "ON"
          /\ log[i].available = "OFF" => Phase \in {"STOPPING", "STOPPED"}
    /\ \A i, j \in OffCalls : i = j

C23_AvailableOn ==
    /\ []C23_OnThenOff
    /\ [][ /\ Samples_Taken =>
                  /\ status'.available = "ON"
                  /\ log'[Len(log')].available = status'.available
           /\ (Called /\ log'[Len(log')].available = "OFF") => pc = "off"
         ]_vars

\* a run that sampled twice and stopped: one "OFF" message, after the "ON" ones
C23_Witness ==
    /\ pc = "done" /\ Sampled >= 2
    /\ OffCalls = {Len(log)}
    /\ status.available = "ON"

----------------------------------------------------------------------------
(* C24: the state behind the rates is kept per counter and advanced once per       *)
(* cycle.                                                                          *)
\* the step of a cycle that samples
SamplingStep == pc = "update" /\ pc' # pc

\* the baseline of each counter of interface i becomes that counter's own previous
\* reading: transmitted and received advance independently of each other
Advanced(i) ==
    /\ network'[i].old_tx = network[i].tx
    /\ network'[i].old_rx = network[i].rx

----------------------------------------------------------------------------
(* C25: the order of the scaling does not affect the rate. For every delta d of a  *)
(* counter and every period p >= 1, the rate reported in KiB/s is d / (1024 * p):  *)
(* no part of the delta is lost to integer truncation.                             *)
\* the reported rate r is exactly d bytes over the period, in KiB/s:
\* r.num / r.den = d / (KiB * update_period)
ExactRate(r, d) == r.num * KiB * config.update_period = d * r.den

C25_NoTruncation ==
    config.update_period >= 1 =>
        \A i \in DOMAIN status.network :
            /\ ExactRate(status.network[i].tx, transmitted(network[i]))
            /\ ExactRate(status.network[i].rx, received(network[i]))

----------------------------------------------------------------------------
(* C26: the re-announce cadence is well defined. For every period with which the   *)
(* reporting loop starts, N = floor(60 / period) - 1 is at least 1: the            *)
(* subtraction does not underflow and N is not 0, so the loop's expire_cycles is   *)
(* that N and (c + 1) mod N is defined.                                            *)
LoopStarted == pc \in {"announce", "settle", "cycle", "update", "wait", "off", "grace", "done"}

C26_CadenceDefined ==
    LoopStarted =>
        /\ config.update_period >= 1
        /\ ExpireWindow \div config.update_period >= 1
        /\ ClaimN >= 1
        /\ expire_cycles = ClaimN

----------------------------------------------------------------------------
(* C27: the mapping from sensors to keys is injective over the sensors the startup *)
(* can register. Two different sensors (of different kinds, or of the same kind    *)
(* for different interfaces) never share a key of the components map nor a         *)
(* unique_id, so registering one never replaces the descriptor of another: after   *)
(* the startup every registered sensor is found under its own key with its own     *)
(* descriptor.                                                                     *)
\* interface names of the comparison: the configurable ones, and names made of the
\* words the keys are made of
KeyLikeNames == {"cpu", "net", "eth0_net_rx", "eth0_net"}

SensorsOf(interfaces) ==
    {Sensor(k, "") : k \in {"Available", "CpuUsage", "CpuTemperature", "MemoryUsage"}}
        \cup {Sensor(k, i) : k \in {"NetRx", "NetTx"}, i \in interfaces}

ComponentOf(sensor, entity) ==
    IF sensor.id = "" THEN DeviceComponent(sensor, entity)
    ELSE InterfaceComponent(sensor, entity)

\* the sensors this process registers
Registrable ==
    {s \in SensorsOf(config.network) : s.kind = "CpuTemperature" => temp_component}

----------------------------------------------------------------------------
(* C28: no termination signal is lost. An interrupt or terminate signal delivered  *)
(* at any point after the reporting loop has started (during the settle delay,     *)
(* during a publish or during the wait) leads to the off() snapshot and to         *)
(* STOPPED. For that the signal has to reach the loop: while the loop has not      *)
(* begun its shutdown, the process is alive (no signal ended it on the spot) and   *)
(* no signal was received without a listener to keep it for the wait.              *)
BeforeShutdown == pc \in {"announce", "settle", "cycle", "update", "wait"}

C28_NoSignalLost ==
    BeforeShutdown => (alive /\ ~int_missed)

====
